---------------------------- MODULE Spec2Model ----------------------------
(***************************************************************************)
(* Movie-Search-API-Backend: the query router of search_tmdb, its four     *)
(* retrieval strategies, the record mapper map_to_movie and the Match      *)
(* Filter, as one request running against the Redis cache and the TMDB /   *)
(* OMDb upstreams.                                                         *)
(*                                                                         *)
(* Python values.  A str is a sequence of one-character strings, so that   *)
(* lower(), `in`, split() and int() are computed and not assumed.  An      *)
(* Optional value is a sequence of length at most one: None is <<>> and a  *)
(* present value v is <<v>>.  A dict read with .get() is a record whose    *)
(* absent keys hold None.                                                  *)
(***************************************************************************)
EXTENDS Integers, Sequences, FiniteSets, TLC

VARIABLES
  params,     \* the MovieSearchParams of the request
  pc,         \* where the request coroutine is suspended
  strategy,   \* the branch search_tmdb took
  endpoints,  \* _search_by_title_only: endpoints still to query
  endpoint,   \* the endpoint returned beside the raw items
  data,       \* the raw items returned by the search or the discovery
  genres,     \* taxonomy handed to map_to_movie, per endpoint
  tasks,      \* the map_to_movie coroutines of the request, in creation order
  batch,      \* index of the first task of the gather now awaited
  doneOrder,  \* indices of the finished tasks, in completion order
  movies,     \* _search_by_title_only: records accumulated so far
  result,     \* what search_tmdb returned
  calls,      \* upstream HTTP requests issued by the request coroutine, in order
  cache,      \* the Redis store
  fg,         \* the running fetch_genres call
  disc,       \* locals of discover_by_filters
  pop,        \* the two get_popular coroutines of the popular fallback
  co,         \* fetch_genres / get_popular calls of concurrent requests
  twin        \* the request made before this one with another title, once it ended

vars == <<params, pc, strategy, endpoints, endpoint, data, genres, tasks, batch,
          doneOrder, movies, result, calls, cache, fg, disc, pop, co, twin>>

-----------------------------------------------------------------------------
(* Bounds of the model *)

MaxResults == 2
MaxPopular == 11
\* the upstream requests that the calls of fetch_genres and get_popular of
\* concurrent requests make in all, and the clock steps a popularity entry lives
MaxCalls == 2
TtlTicks == 2

-----------------------------------------------------------------------------
(* Python values *)

None == <<>>
Some(v) == <<v>>
Val(o) == o[1]

\* bool(x) of an Optional[str]: None and '' are falsy
Truthy(o) == o # None /\ Val(o) # <<>>

\* bool(x) of an Optional[int]: None and 0 are falsy
TruthyInt(o) == o # None /\ Val(o) # 0

\* x or y
Or(x, y) == IF Truthy(x) THEN x ELSE y

LowerChar(c) ==
  CASE c = "A" -> "a"
    [] c = "B" -> "b"
    [] c = "X" -> "x"
    [] OTHER -> c

\* str.lower()
Lower(s) == [i \in DOMAIN s |-> LowerChar(s[i])]

\* sub in s
Contains(sub, s) ==
  \E i \in 0..(Len(s) - Len(sub)) : SubSeq(s, i + 1, i + Len(sub)) = sub

\* ord(c) of the characters titles are written in
Ord(c) ==
  CASE c = "A" -> 65
    [] c = "B" -> 66
    [] c = "X" -> 88
    [] c = "a" -> 97
    [] c = "b" -> 98
    [] c = "x" -> 120
    [] OTHER -> 0

RECURSIVE StrLess(_, _)
\* s < t of two str: lexicographic by code point
StrLess(s, t) ==
  IF t = <<>> THEN FALSE
  ELSE IF s = <<>> THEN TRUE
  ELSE IF s[1] # t[1] THEN Ord(s[1]) < Ord(t[1])
  ELSE StrLess(Tail(s), Tail(t))

Digits == <<"0", "1", "2", "3", "4", "5", "6", "7", "8", "9">>

DigitVal(c) == (CHOOSE k \in DOMAIN Digits : Digits[k] = c) - 1

IsDigits(s) == s # <<>> /\ \A i \in DOMAIN s : \E k \in DOMAIN Digits : Digits[k] = s[i]

RECURSIVE DigitsToInt(_)
DigitsToInt(s) ==
  IF s = <<>> THEN 0
  ELSE 10 * DigitsToInt(SubSeq(s, 1, Len(s) - 1)) + DigitVal(s[Len(s)])

\* int(s): None stands for the ValueError of a str that is no decimal number
ParseInt(s) == IF IsDigits(s) THEN Some(DigitsToInt(s)) ELSE None

RECURSIVE IntToStr(_)
\* str(n) of a non-negative int
IntToStr(n) ==
  IF n < 10 THEN <<Digits[n + 1]>>
  ELSE IntToStr(n \div 10) \o <<Digits[(n % 10) + 1]>>

\* s.split('-')[0]
SplitDashFirst(s) ==
  IF \E i \in DOMAIN s : s[i] = "-"
  THEN SubSeq(s, 1, (CHOOSE i \in DOMAIN s :
                       s[i] = "-" /\ \A j \in 1..(i - 1) : s[j] # "-") - 1)
  ELSE s

\* [f(x) for x in xs if p(x)] helpers
RECURSIVE SelectIdx(_, _, _)
SelectIdx(xs, keep, i) ==
  IF i > Len(xs) THEN <<>>
  ELSE (IF keep[i] THEN <<xs[i]>> ELSE <<>>) \o SelectIdx(xs, keep, i + 1)


-----------------------------------------------------------------------------
(* Genre taxonomy: a dict {id: name}, kept in insertion order *)

\* genres.get(g)
TaxGet(tax, g) ==
  IF \E k \in DOMAIN tax : tax[k].id = g
  THEN Some(tax[CHOOSE k \in DOMAIN tax : tax[k].id = g].name)
  ELSE None

\* next((i for i, n in genres.items() if n.lower() == genre.lower()), None)
\* (faulty variant: the names are compared as they are written)
ResolveGenreCaseSensitive(tax, genre) ==
  IF \E k \in DOMAIN tax : tax[k].name = genre
  THEN Some(tax[CHOOSE k \in DOMAIN tax :
                  /\ tax[k].name = genre
                  /\ \A j \in 1..(k - 1) : tax[j].name # genre].id)
  ELSE None
ResolveGenre(tax, genre) ==
  IF \E k \in DOMAIN tax : Lower(tax[k].name) = Lower(genre)
  THEN Some(tax[CHOOSE k \in DOMAIN tax :
                  /\ Lower(tax[k].name) = Lower(genre)
                  /\ \A j \in 1..(k - 1) : Lower(tax[j].name) # Lower(genre)].id)
  ELSE None

\* json.dumps(mapping): the int keys become their decimal strings
JsonDumpsTax(tax) == [k \in DOMAIN tax |-> [name |-> tax[k].name, key |-> IntToStr(tax[k].id)]]

\* {int(k): v for k, v in json.loads(cached).items()}
JsonLoadsTax(cached) ==
  [k \in DOMAIN cached |-> [id |-> DigitsToInt(cached[k].key), name |-> cached[k].name]]

-----------------------------------------------------------------------------
(* map_to_movie *)

\* item.get('title') or item.get('name') or ''
ItemTitle(item) == Val(Or(Or(item.title, item.name), Some(<<>>)))

\* item.get('release_date') or item.get('first_air_date') or ''
ItemDate(item) == Val(Or(Or(item.release_date, item.first_air_date), Some(<<>>)))

\* int(date.split('-')[0]) raises ValueError
ItemYearRaises(item) ==
  ItemDate(item) # <<>> /\ ParseInt(SplitDashFirst(ItemDate(item))) = None

\* int(date.split('-')[0]) if date else None
ItemYear(item) ==
  IF ItemDate(item) # <<>> THEN ParseInt(SplitDashFirst(ItemDate(item))) ELSE None

\* [genres.get(g) for g in item.get('genre_ids', []) if genres.get(g)]
GenreList(item, tax) ==
  LET ids  == item.genre_ids
      keep == [i \in DOMAIN ids |-> Truthy(TaxGet(tax, ids[i]))]
      nms  == [i \in DOMAIN ids |-> IF keep[i] THEN Val(TaxGet(tax, ids[i])) ELSE <<>>]
  IN  SelectIdx(nms, keep, 1)

\* [c.get('name') for c in cast if c.get('name')]
CastNames(cast) ==
  LET keep == [i \in DOMAIN cast |-> Truthy(cast[i])]
      nms  == [i \in DOMAIN cast |-> IF keep[i] THEN Val(cast[i]) ELSE <<>>]
  IN  SelectIdx(nms, keep, 1)

ImageBase == <<"https://image.tmdb.org/t/p/w500">>

\* f"https://image.tmdb.org/t/p/w500{item['poster_path']}"
TmdbPoster(item) == Some(ImageBase \o Val(item.poster_path))

\* {r['Source']: r['Value'] for r in omdb.get('Ratings', [])}: a later entry of
\* the same source overwrites an earlier one
RatingsMap(rs) ==
  [s \in {rs[i].Source : i \in DOMAIN rs} |->
     rs[CHOOSE i \in DOMAIN rs :
          rs[i].Source = s /\ \A j \in (i + 1)..Len(rs) : rs[j].Source # s].Value]

\* the else branch: poster from the catalog path only
PosterPrimaryOnly(item) ==
  IF Truthy(item.poster_path) THEN TmdbPoster(item) ELSE None

\* the omdb branch: catalog path if present, else omdb.get('Poster')
\* (faulty variant: the enrichment poster takes precedence)
PosterMergedOmdbFirst(item, omdb) ==
  IF Truthy(omdb.Poster) THEN omdb.Poster
  ELSE IF Truthy(item.poster_path) THEN TmdbPoster(item) ELSE None
PosterMerged(item, omdb) ==
  IF Truthy(item.poster_path) THEN TmdbPoster(item) ELSE omdb.Poster

\* title = title or omdb.get('Title')
TitleMerged(item, omdb) ==
  IF ItemTitle(item) # <<>> THEN Some(ItemTitle(item)) ELSE omdb.Title

\* int(omdb.get('Year')) raises ValueError
OmdbYearRaises(item, omdb) ==
  /\ ~TruthyInt(ItemYear(item))
  /\ Truthy(omdb.Year)
  /\ ParseInt(Val(omdb.Year)) = None

\* year = year or (int(omdb.get('Year')) if omdb.get('Year') else None)
YearMerged(item, omdb) ==
  IF TruthyInt(ItemYear(item)) THEN ItemYear(item)
  ELSE IF Truthy(omdb.Year) THEN ParseInt(Val(omdb.Year)) ELSE None

\* params.type or ('series' if media_type == 'tv' else 'movie')
\* (faulty variant: the name of the endpoint is taken for the type)
RecordTypeOfEndpoint(p, media_type) == media_type
RecordType(p, media_type) ==
  IF p.type # None THEN Val(p.type)
  ELSE IF media_type = "tv" THEN "series" ELSE "movie"

\* id = imdb_id or str(tmdb_id)
\* (faulty variant: `imdb_id if imdb_id is not None else str(tmdb_id)`)
RecordIdNotNone(item, imdb_id) ==
  IF imdb_id # None THEN Val(imdb_id) ELSE IntToStr(item.id)
RecordId(item, imdb_id) ==
  IF Truthy(imdb_id) THEN Val(imdb_id) ELSE IntToStr(item.id)

\* `if omdb:` -- the enrichment payload is a non-empty dict
HasOmdb(omdb) == omdb # None

\* source = 'Merged' / 'TMDB'
\* (faulty variant: Merged as soon as an imdb_id was resolved)
RecordSourceByImdbId(imdb_id, omdb) == IF Truthy(imdb_id) THEN "Merged" ELSE "TMDB"
RecordSource(imdb_id, omdb) == IF HasOmdb(omdb) THEN "Merged" ELSE "TMDB"

\* MovieResponse(...) raises a ValidationError: title is declared str
RecordInvalid(item, omdb) ==
  HasOmdb(omdb) /\ TitleMerged(item, Val(omdb)) = None

\* the MovieResponse map_to_movie returns, from the item, the cast names, the
\* resolved imdb_id and the enrichment payload (None when there is none)
MovieRecord(item, media_type, tax, p, actors, imdb_id, omdb) ==
  IF HasOmdb(omdb)
  THEN [genres     |-> GenreList(item, tax),
        id         |-> RecordId(item, imdb_id),
        title      |-> Val(TitleMerged(item, Val(omdb))),
        type       |-> RecordType(p, media_type),
        actors     |-> actors,
        year       |-> YearMerged(item, Val(omdb)),
        director   |-> Val(omdb).Director,
        runtime    |-> Val(omdb).Runtime,
        plot       |-> Val(omdb).Plot,
        poster_url |-> PosterMerged(item, Val(omdb)),
        ratings    |-> RatingsMap(Val(omdb).Ratings),
        source     |-> RecordSource(imdb_id, omdb)]
  ELSE [genres     |-> GenreList(item, tax),
        id         |-> RecordId(item, imdb_id),
        title      |-> ItemTitle(item),
        type       |-> RecordType(p, media_type),
        actors     |-> actors,
        year       |-> ItemYear(item),
        director   |-> None,
        runtime    |-> None,
        plot       |-> None,
        poster_url |-> PosterPrimaryOnly(item),
        ratings    |-> <<>>,
        source     |-> RecordSource(imdb_id, omdb)]

-----------------------------------------------------------------------------
(* matches *)

\* params.type and movie.type != params.type
TypeFails(m, p) == p.type # None /\ m.type # Val(p.type)

\* params.genre and not any(g.lower() == params.genre.lower() for g in movie.genres)
\* (faulty variant: the genre of the query is not tested)
GenreFailsNever(m, p) == FALSE
GenreFails(m, p) ==
  /\ Truthy(p.genre)
  /\ ~\E i \in DOMAIN m.genres : Lower(m.genres[i]) = Lower(Val(p.genre))

\* params.actors and not any(params.actors.lower() in a.lower() for a in movie.actors)
\* (faulty variant: the title of the query is looked for in the names)
ActorsFailsByTitle(m, p) ==
  /\ Truthy(p.actors)
  /\ ~\E i \in DOMAIN m.actors : Contains(Lower(Val(p.title)), Lower(m.actors[i]))
ActorsFails(m, p) ==
  /\ Truthy(p.actors)
  /\ ~\E i \in DOMAIN m.actors : Contains(Lower(Val(p.actors)), Lower(m.actors[i]))

\* (faulty variant: the genre is compared without lower())
matchesCaseSensitive(m, p) ==
  IF TypeFails(m, p) THEN FALSE
  ELSE IF Truthy(p.genre) /\ ~\E i \in DOMAIN m.genres : m.genres[i] = Val(p.genre)
       THEN FALSE
  ELSE IF ActorsFails(m, p) THEN FALSE
  ELSE TRUE
matches(m, p) ==
  IF TypeFails(m, p) THEN FALSE
  ELSE IF GenreFails(m, p) THEN FALSE
  ELSE IF ActorsFails(m, p) THEN FALSE
  ELSE TRUE


-----------------------------------------------------------------------------
(* Upstream data the request may be answered with *)

S_a  == <<"a">>
S_b  == <<"b">>
S_B  == <<"B">>
S_Aa == <<"A", "a">>
S_aA == <<"a", "A">>
S_Xb == <<"X", "b">>
S_xx == <<"x", "x">>

\* GET /genre/{endpoint}/list, as the dict fetch_genres builds from it
TaxUp(ep) ==
  IF ep = "tv"
  THEN <<[id |-> 1, name |-> S_Aa], [id |-> 3, name |-> S_Xb]>>
  ELSE <<[id |-> 1, name |-> S_Aa], [id |-> 2, name |-> S_b]>>

\* a later edition of the taxonomy the upstream serves
TaxLater(ep) ==
  IF ep = "tv"
  THEN <<[id |-> 0, name |-> S_Aa], [id |-> 10, name |-> S_b]>>
  ELSE <<[id |-> 10, name |-> S_Xb]>>

ItemA ==
  [id |-> 7, name |-> None, title |-> Some(S_a),
   release_date |-> Some(<<"2", "0", "0", "1", "-", "0", "2", "-", "0", "3">>),
   first_air_date |-> None, genre_ids |-> <<1>>, poster_path |-> Some(<<"/", "p">>)]

ItemB ==
  [id |-> 12, name |-> Some(S_B), title |-> None,
   release_date |-> None, first_air_date |-> Some(<<>>),
   genre_ids |-> <<3, 9>>, poster_path |-> None]

Items == {ItemA, ItemB}

\* the lists of at most n raw items
ItemLists(n) == UNION {[1..k -> Items] : k \in 0..n}

TT1 == <<"t", "t", "1">>

\* GET /{media_type}/{id}/credits: the cast the catalog holds for the item
CastOf(item) ==
  IF item.id = ItemA.id THEN {<<None, Some(S_a)>>} ELSE {<<Some(S_Xb)>>}

\* GET /{media_type}/{id}: the imdb_id the catalog holds for the item
ImdbOf(item) == IF item.id = ItemA.id THEN {Some(TT1)} ELSE {None}

OmdbOk ==
  [Poster |-> Some(S_xx),
   Title |-> Some(S_Xb), Year |-> Some(<<"1", "9", "9", "9">>),
   Director |-> Some(S_a), Runtime |-> None, Plot |-> Some(S_b),
   Ratings |-> <<[Source |-> S_a, Value |-> S_b]>>]

\* the payload OMDb holds for the imdb_id, sent under Response == 'True'
OmdbOf(imdb_id) == {OmdbOk}

Date2001 == <<"2", "0", "0", "1", "-", "0", "2", "-", "0", "3">>
Date1987 == <<"1", "9", "8", "7", "-", "1", "2", "-", "3", "1">>

MapItems ==
  [id             : {7, 120},
   name           : {None, Some(S_B)},
   title          : {None, Some(<<>>), Some(S_a)},
   release_date   : {None, Some(Date2001)},
   first_air_date : {Some(<<>>), Some(Date1987)},
   genre_ids      : {<<1, 9, 3>>},
   poster_path    : {None, Some(<<>>), Some(<<"/", "p">>)}]

MapCasts(item) == {<<>>, <<Some(S_Xb), None, Some(<<>>), Some(S_a)>>}

MapImdbIds(item) == {None, Some(<<>>), Some(TT1)}

\* payloads of a successful OMDb answer; Year may be a range such as '2011-'
MapOmdbs(imdb_id) ==
  [Poster   : {None, Some(S_xx)},
   Title    : {None, Some(S_Xb)},
   Year     : {None, Some(<<"1", "9", "9", "9">>), Some(<<"2", "0", "1", "1", "-">>)},
   Director : {None, Some(S_a)},
   Runtime  : {Some(S_b)},
   Plot     : {Some(S_xx)},
   Ratings  : {<<>>, <<[Source |-> S_a, Value |-> S_b],
                       [Source |-> S_b, Value |-> S_xx],
                       [Source |-> S_a, Value |-> S_Aa]>>}]

\* what the upstreams answer a mapping task with: the fixed catalog above, or
\* any of the payload shapes below
\* how an HTTP request ends: a 200 answer, an answer with another status, or no
\* answer at all (connection error, timeout)
HttpOutcomes == {"200", "non2xx", "network"}

\* await client.get(...) raises
GetRaises(outcome) == outcome = "network"

\* resp.raise_for_status() raises
\* (faulty variant: the status of the answer is not looked at)
RaisesForStatusNever(outcome) == FALSE
RaisesForStatus(outcome) == outcome = "non2xx"

\* how the requests of the mapping tasks end in a world: while the charts are
\* mapped the upstream answers every one of them
HttpOutcomesIn(world) == IF world = "charts" THEN {"200"} ELSE HttpOutcomes

\* how the detail request of an item ends: in the small data set the catalog
\* may refuse the details of the item that has a cross-reference id only
DetailOutcomesIn(world, item) ==
  IF world = "catalog" /\ item.id # ItemA.id
  THEN HttpOutcomesIn(world) \ {"non2xx"}
  ELSE HttpOutcomesIn(world)

CastsIn(world, item) == IF world = "any" THEN MapCasts(item) ELSE CastOf(item)
ImdbIdsIn(world, item) == IF world = "any" THEN MapImdbIds(item) ELSE ImdbOf(item)
OmdbsIn(world, imdb_id) == IF world = "any" THEN MapOmdbs(imdb_id) ELSE OmdbOf(imdb_id)

\* results of GET /search/person: the ids of the people found
PeopleLists == {<<>>, <<5, 6>>}

Alphabet == <<"A", "B", "X", "a", "b", "x">>

\* the n-th two-letter title in code point order, n in 0..35
TitleNo(n) == <<Alphabet[(n \div 6) + 1], Alphabet[(n % 6) + 1]>>

PopItem(ep, k, pattern) ==
  [id |-> (IF ep = "tv" THEN 200 ELSE 100) + k,
   name |-> None,
   title |-> (IF pattern = "same" THEN Some(S_a)
              ELSE Some(TitleNo((IF ep = "tv" THEN 17 ELSE 35) - k))),
   release_date |-> None, first_air_date |-> None,
   genre_ids |-> <<1>>, poster_path |-> None]

\* popularity lists of up to MaxPopular items: titles descending, or all equal
PopularLists(ep) ==
  {[k \in 1..n |-> PopItem(ep, k, pattern)] :
     n \in 0..MaxPopular, pattern \in {"descending", "same"}}

\* the answers of GET /{endpoint}/popular: the popularity lists in the "charts"
\* world, a list of at most one catalog item otherwise
PopularIn(world, ep) == IF world = "charts" THEN PopularLists(ep) ELSE ItemLists(1)

\* the queries with every field absent or given, and some with an empty string
\* in the place of an absent field
Queries ==
  [genre  : {None, Some(S_aA), Some(S_xx)},
   title  : {None, Some(S_a)},
   type   : {None, Some("movie"), Some("series")},
   actors : {None, Some(S_b)}]
  \cup {[genre |-> None, title |-> Some(<<>>), type |-> None, actors |-> None],
        [genre |-> Some(<<>>), title |-> Some(<<>>), type |-> None, actors |-> Some(S_b)],
        [genre |-> Some(S_aA), title |-> Some(S_a), type |-> Some("series"), actors |-> Some(<<>>)]}

-----------------------------------------------------------------------------
(* The Redis store: key -> None, or the value with the expiry it was set with *)

CACHE_TTL_POPULAR == 600

GenresKey(ep) == IF ep = "tv" THEN "genres:tv" ELSE "genres:movie"
PopularKey(ep) == IF ep = "tv" THEN "popular:tv" ELSE "popular:movie"
CacheKeys == {"genres:tv", "genres:movie", "popular:tv", "popular:movie"}

ColdCache == [k \in CacheKeys |-> None]

\* cached = await _redis.get(key); if cached: Redis answers nil for a key it
\* does not hold and for a key whose time to live has run out (ttl 0: Redis
\* evicts an expired key lazily, and never serves it)
\* (faulty variant: the entry is never used)
CachedNever(c, key) == FALSE
Cached(c, key) == c[key] # None /\ Val(c[key]).ttl # Some(0)

\* await _redis.set(key, value, ex=ex): the whole value is replaced
\* (faulty variant: the value is appended to the one the key holds)
CacheSetAppend(c, key, value, ex) ==
  [c EXCEPT ![key] = Some([val |-> (IF c[key] = None THEN <<>> ELSE Val(c[key]).val)
                                     \o value,
                           ttl |-> ex])]
CacheSet(c, key, value, ex) == [c EXCEPT ![key] = Some([val |-> value, ttl |-> ex])]

\* both taxonomies cached by an earlier request, popularity lists absent
WarmCache ==
  [k \in CacheKeys |->
     IF k = "genres:tv" THEN Some([val |-> JsonDumpsTax(TaxUp("tv")), ttl |-> None])
     ELSE IF k = "genres:movie" THEN Some([val |-> JsonDumpsTax(TaxUp("movie")), ttl |-> None])
     ELSE None]

-----------------------------------------------------------------------------
(* Initial state: a request arrives, nothing has run *)

NoFg == [ep |-> "movie", ret |-> "none", mapping |-> <<>>]
NoDisc == [with_genres |-> None, with_cast |-> None, person_id |-> None]
NoPop == [ep \in {"tv", "movie"} |-> [pc |-> "idle", items |-> <<>>]]
NoGenres == [ep \in {"tv", "movie"} |-> <<>>]
NoCo == <<>>
\* no request was made before this one
NoTwin == [ran |-> FALSE, title0 |-> None, cache0 |-> ColdCache, calls0 |-> <<>>,
           tasks0 |-> <<>>, result0 |-> <<>>, pc0 |-> "start"]

InitRequestVars(q, c) ==
  /\ params = q
  /\ pc = "start"
  /\ strategy = "none"
  /\ endpoints = <<>>
  /\ endpoint = "movie"
  /\ data = <<>>
  /\ genres = NoGenres
  /\ tasks = <<>>
  /\ batch = 1
  /\ doneOrder = <<>>
  /\ movies = <<>>
  /\ result = <<>>
  /\ calls = <<>>
  /\ cache = c
  /\ fg = NoFg
  /\ disc = NoDisc
  /\ pop = NoPop

InitRequest(q, c) == InitRequestVars(q, c) /\ co = NoCo /\ twin = NoTwin

Init == \E q \in Queries, c \in {ColdCache, WarmCache} : InitRequest(q, c)

-----------------------------------------------------------------------------
(* search_tmdb: the router *)

IsSeries == params.type = Some("series")
has_title(p) == Truthy(p.title)
\* (faulty variant: any([params.genre, params.actors]))
has_filtersTypeIgnored(p) == Truthy(p.genre) \/ Truthy(p.actors)
has_filters(p) == Truthy(p.genre) \/ Truthy(p.actors) \/ p.type # None

Classify(p) ==
  IF has_title(p) /\ ~has_filters(p) THEN "title_only"
  ELSE IF has_title(p) /\ has_filters(p) THEN "title_with_filters"
  ELSE IF has_filters(p) THEN "filters_only"
  ELSE "popular"

SeriesEp == IF IsSeries THEN "tv" ELSE "movie"

\* ['tv', 'movie'] if not params.type else ['tv'] if is_series else ['movie']
\* (faulty variant: ['movie', 'tv'])
TitleOnlyEndpointsMovieFirst ==
  IF params.type = None THEN <<"movie", "tv">>
  ELSE IF IsSeries THEN <<"tv">> ELSE <<"movie">>
TitleOnlyEndpoints ==
  IF params.type = None THEN <<"tv", "movie">>
  ELSE IF IsSeries THEN <<"tv">> ELSE <<"movie">>

\* `params.actors and is_series`: candidates of a titled query come from discovery
\* (faulty variant: `if params.actors`)
UsesDiscoveryAnyType == Truthy(params.actors)
UsesDiscovery == Truthy(params.actors) /\ IsSeries

\* an HTTP request with how it ended and the list it was answered with (empty
\* when it raised or returns none)
Call(kind, ep, g, c, rs, outcome) ==
  [ep |-> ep, outcome |-> outcome, with_genres |-> g, with_cast |-> c, kind |-> kind,
   results |-> rs, item_id |-> None]

\* an HTTP request of the mapping task of the item with the given id. A task
\* keeps how its requests ended in its own record; the request that raised is
\* kept in calls, because the tasks are dropped with the failed gather.
ItemCall(kind, ep, id, outcome) ==
  [Call(kind, ep, None, None, <<>>, outcome) EXCEPT !.item_id = Some(id)]

\* fetch_genres is entered and suspends at `await _redis.get(key)`
EnterFetchGenres(ep, ret) ==
  /\ pc' = "fg_get"
  /\ fg' = [ep |-> ep, ret |-> ret, mapping |-> <<>>]

\* discover_by_filters runs up to its first await
EnterDiscover ==
  /\ disc' = NoDisc
  /\ IF IsSeries
     THEN IF Truthy(params.actors) THEN pc' = "disc_person" /\ fg' = fg
          ELSE IF Truthy(params.genre) THEN EnterFetchGenres("tv", "disc_tv")
          ELSE pc' = "disc_call" /\ fg' = fg
     ELSE IF Truthy(params.genre) THEN EnterFetchGenres("movie", "disc_movie")
          ELSE IF Truthy(params.actors) THEN pc' = "disc_person" /\ fg' = fg
          ELSE pc' = "disc_call" /\ fg' = fg

Route ==
  /\ UNCHANGED <<co, twin>>
  /\ pc = "start"
  /\ strategy' = Classify(params)
  /\ CASE Classify(params) = "title_only" ->
            /\ endpoints' = TitleOnlyEndpoints
            /\ pc' = "search"
            /\ UNCHANGED <<fg, disc, pop>>
       [] Classify(params) = "title_with_filters" ->
            IF UsesDiscovery
            THEN EnterDiscover /\ UNCHANGED <<endpoints, pop>>
            ELSE /\ endpoints' = <<SeriesEp>>
                 /\ pc' = "search"
                 /\ UNCHANGED <<fg, disc, pop>>
       [] Classify(params) = "filters_only" ->
            EnterDiscover /\ UNCHANGED <<endpoints, pop>>
       [] OTHER ->
            /\ pc' = "popular"
            /\ pop' = [ep \in {"tv", "movie"} |-> [pc |-> "get", items |-> <<>>]]
            /\ UNCHANGED <<endpoints, fg, disc>>
  /\ UNCHANGED <<params, endpoint, data, genres, tasks, batch, doneOrder,
                 movies, result, calls, cache>>

\* an awaited call raises: the exception leaves search_tmdb and its locals are gone
Raise ==
  /\ pc' = "error"
  /\ endpoints' = <<>>
  /\ endpoint' = "movie"
  /\ data' = <<>>
  /\ genres' = NoGenres
  /\ tasks' = <<>>
  /\ batch' = 1
  /\ doneOrder' = <<>>
  /\ movies' = <<>>
  /\ fg' = NoFg
  /\ disc' = NoDisc
  /\ pop' = NoPop
  /\ UNCHANGED <<params, strategy, result, cache>>

-----------------------------------------------------------------------------
(* get_search_results *)

Search(n) ==
  /\ UNCHANGED <<co, twin>>
  /\ pc = "search"
  /\ LET ep == Head(endpoints) IN
     \E outcome \in HttpOutcomes :
       IF GetRaises(outcome) \/ RaisesForStatus(outcome)
       THEN Raise /\ calls' = Append(calls, Call("search", ep, None, None, <<>>, outcome))
       ELSE \E rs \in ItemLists(n) :
              /\ calls' = Append(calls, Call("search", ep, None, None, rs, outcome))
              /\ data' = rs
              /\ endpoint' = ep
              /\ EnterFetchGenres(ep, "map")
              /\ UNCHANGED <<params, strategy, endpoints, genres, tasks, batch,
                             doneOrder, movies, result, cache, disc, pop>>

-----------------------------------------------------------------------------
(* fetch_genres *)

Task(item, media_type, tax) ==
  [pc |-> "credits", tax |-> tax, item |-> item, omdb |-> None,
   media_type |-> media_type, imdb_id |-> None, actors |-> <<>>, lookups |-> 0,
   rec |-> None, detail |-> "none"]

\* the endpoint the i-th raw item is mapped with
MediaTypeOf(i) ==
  IF strategy = "popular"
  THEN IF i <= Len(pop["movie"].items) THEN "movie" ELSE "tv"
  ELSE endpoint

\* [map_to_movie(item, endpoint, genres, params, client) for item in data]
NewTasks(g) == [i \in DOMAIN data |-> Task(data[i], MediaTypeOf(i), g[MediaTypeOf(i)])]

\* show for show in credits if genre_id in show.get('genre_ids', [])
FilterCredits(credits, genre_id) ==
  SelectIdx(credits,
            [i \in DOMAIN credits |->
               \E j \in DOMAIN credits[i].genre_ids : credits[i].genre_ids[j] = genre_id],
            1)

\* fetch_genres returns mapping m and its caller runs on to its next await
FgReturn(m) ==
  CASE fg.ret = "map" ->
         /\ genres' = [genres EXCEPT ![fg.ep] = m]
         /\ tasks' = tasks \o NewTasks(genres')
         /\ batch' = Len(tasks) + 1
         /\ doneOrder' = <<>>
         /\ pc' = "gather"
         /\ UNCHANGED <<fg, disc, data, endpoint>>
    [] fg.ret = "pop_movie" ->
         /\ genres' = [genres EXCEPT ![fg.ep] = m]
         /\ EnterFetchGenres("tv", "map")
         /\ UNCHANGED <<tasks, batch, doneOrder, disc, data, endpoint>>
    [] fg.ret = "disc_tv_credits" ->
         /\ data' = (IF TruthyInt(ResolveGenre(m, Val(params.genre)))
                     THEN FilterCredits(data, Val(ResolveGenre(m, Val(params.genre))))
                     ELSE data)
         /\ EnterFetchGenres("tv", "map")
         /\ UNCHANGED <<genres, tasks, batch, doneOrder, disc, endpoint>>
    [] OTHER ->
         /\ fg.ret \in {"disc_movie", "disc_tv"}
         /\ disc' = [disc EXCEPT !.with_genres =
                       IF ResolveGenre(m, Val(params.genre)) # None
                       THEN Some(IntToStr(Val(ResolveGenre(m, Val(params.genre)))))
                       ELSE None]
         /\ pc' = (IF fg.ret = "disc_movie" /\ Truthy(params.actors)
                   THEN "disc_person" ELSE "disc_call")
         /\ UNCHANGED <<fg, genres, tasks, batch, doneOrder, data, endpoint>>

\* cached = await _redis.get(key)
FgGet ==
  /\ UNCHANGED <<co, twin>>
  /\ pc = "fg_get"
  /\ \/ Raise /\ UNCHANGED calls
     \/ /\ Cached(cache, GenresKey(fg.ep))
        /\ FgReturn(JsonLoadsTax(Val(cache[GenresKey(fg.ep)]).val))
        /\ UNCHANGED <<params, strategy, endpoints, movies, result,
                       calls, cache, pop>>
     \/ /\ ~Cached(cache, GenresKey(fg.ep))
        /\ pc' = "fg_http"
        /\ UNCHANGED <<params, strategy, endpoints, endpoint, data, genres, tasks,
                       batch, doneOrder, movies, result, calls, cache, fg, disc, pop>>

\* resp = await client.get(.../genre/{endpoint}/list); resp.raise_for_status()
FgHttp ==
  /\ UNCHANGED <<co, twin>>
  /\ pc = "fg_http"
  /\ \E outcome \in HttpOutcomes :
       /\ calls' = Append(calls, Call("genres", fg.ep, None, None, <<>>, outcome))
       /\ IF GetRaises(outcome) \/ RaisesForStatus(outcome)
          THEN Raise
          ELSE /\ fg' = [fg EXCEPT !.mapping = TaxUp(fg.ep)]
               /\ pc' = "fg_set"
               /\ UNCHANGED <<params, strategy, endpoints, endpoint, data, genres,
                              tasks, batch, doneOrder, movies, result, cache, disc,
                              pop>>

\* await _redis.set(key, json.dumps(mapping)); return mapping
FgSet ==
  /\ UNCHANGED <<co, twin>>
  /\ pc = "fg_set"
  /\ \/ Raise /\ UNCHANGED calls
     \/ /\ cache' = CacheSet(cache, GenresKey(fg.ep), JsonDumpsTax(fg.mapping), None)
        /\ FgReturn(fg.mapping)
        /\ UNCHANGED <<params, strategy, endpoints, movies, result,
                       calls, pop>>

-----------------------------------------------------------------------------
(* discover_by_filters: _discover_movie_by_filters, _discover_tv_by_filters *)

\* if people: query['with_cast'] = str(people[0].get('id'))
\* (faulty variant: the cast filter is set without looking at people)
WithCastUnchecked(people) ==
  IF people # <<>> THEN Some(IntToStr(people[1])) ELSE Some(<<"N", "o", "n", "e">>)
WithCast(people) == IF people # <<>> THEN Some(IntToStr(people[1])) ELSE None

\* p = await client.get(.../search/person); p.raise_for_status()
DiscPerson ==
  /\ UNCHANGED <<co, twin>>
  /\ pc = "disc_person"
  /\ \E outcome \in HttpOutcomes :
     IF GetRaises(outcome) \/ RaisesForStatus(outcome)
     THEN Raise /\ calls' = Append(calls, Call("person", SeriesEp, None, None, <<>>,
                                                outcome))
     ELSE \E people \in PeopleLists :
          /\ calls' = Append(calls, Call("person", SeriesEp, None, None,
                                         [k \in DOMAIN people |-> [id |-> people[k]]],
                                         outcome))
          /\ IF IsSeries
             THEN IF people = <<>>
                  THEN \* return [], endpoint
                       /\ data' = <<>>
                       /\ endpoint' = "tv"
                       /\ EnterFetchGenres("tv", "map")
                       /\ disc' = disc
                  ELSE /\ disc' = [disc EXCEPT !.person_id = Some(people[1])]
                       /\ pc' = "disc_credits"
                       /\ UNCHANGED <<data, endpoint, fg>>
             ELSE /\ disc' = [disc EXCEPT !.with_cast = WithCast(people)]
                  /\ pc' = "disc_call"
                  /\ UNCHANGED <<data, endpoint, fg>>
          /\ UNCHANGED <<params, strategy, endpoints, genres, tasks, batch,
                         doneOrder, movies, result, cache, pop>>

\* credits_resp = await client.get(.../person/{person_id}/tv_credits)
DiscCredits(n) ==
  /\ UNCHANGED <<co, twin>>
  /\ pc = "disc_credits"
  /\ \E outcome \in HttpOutcomes :
     IF GetRaises(outcome) \/ RaisesForStatus(outcome)
     THEN Raise /\ calls' = Append(calls, Call("tv_credits", "tv", None,
                                                Some(IntToStr(Val(disc.person_id))),
                                                <<>>, outcome))
     ELSE \E credits \in ItemLists(n) :
          /\ calls' = Append(calls, Call("tv_credits", "tv", None,
                                         Some(IntToStr(Val(disc.person_id))), credits,
                                         outcome))
          /\ data' = credits
          /\ endpoint' = "tv"
          /\ IF Truthy(params.genre)
             THEN EnterFetchGenres("tv", "disc_tv_credits")
             ELSE EnterFetchGenres("tv", "map")
          /\ UNCHANGED <<params, strategy, endpoints, genres, tasks, batch,
                         doneOrder, movies, result, cache, disc, pop>>

\* resp = await client.get(.../discover/{endpoint}, params=query)
DiscCall(n) ==
  /\ UNCHANGED <<co, twin>>
  /\ pc = "disc_call"
  /\ \E outcome \in HttpOutcomes :
     IF GetRaises(outcome) \/ RaisesForStatus(outcome)
     THEN Raise /\ calls' = Append(calls, Call("discover", SeriesEp, disc.with_genres,
                                                disc.with_cast, <<>>, outcome))
     ELSE \E rs \in ItemLists(n) :
          /\ calls' = Append(calls, Call("discover", SeriesEp, disc.with_genres,
                                         disc.with_cast, rs, outcome))
          /\ data' = rs
          /\ endpoint' = SeriesEp
          /\ EnterFetchGenres(SeriesEp, "map")
          /\ UNCHANGED <<params, strategy, endpoints, genres, tasks, batch,
                         doneOrder, movies, result, cache, disc, pop>>

-----------------------------------------------------------------------------
(* get_popular, twice under asyncio.gather *)

\* cached = await _redis.get(key)
PopGet(ep) ==
  /\ UNCHANGED <<co, twin>>
  /\ pc = "popular"
  /\ pop[ep].pc = "get"
  /\ \/ Raise /\ UNCHANGED calls
     \/ /\ pop' = [pop EXCEPT ![ep] =
                     IF Cached(cache, PopularKey(ep))
                     THEN [pc |-> "done", items |-> Val(cache[PopularKey(ep)]).val]
                     ELSE [pc |-> "http", items |-> <<>>]]
        /\ UNCHANGED <<params, pc, strategy, endpoints, endpoint, data, genres,
                       tasks, batch, doneOrder, movies, result, calls, cache, fg, disc>>

\* resp = await client.get(.../{endpoint}/popular); resp.raise_for_status()
PopHttp(ep, world) ==
  /\ UNCHANGED <<co, twin>>
  /\ pc = "popular"
  /\ pop[ep].pc = "http"
  /\ \E outcome \in HttpOutcomes :
     IF GetRaises(outcome) \/ RaisesForStatus(outcome)
     THEN Raise /\ calls' = Append(calls, Call("popular", ep, None, None, <<>>, outcome))
     ELSE \E items \in PopularIn(world, ep) :
          /\ calls' = Append(calls, Call("popular", ep, None, None, items, outcome))
          /\ pop' = [pop EXCEPT ![ep] = [pc |-> "set", items |-> items]]
          /\ UNCHANGED <<params, pc, strategy, endpoints, endpoint, data, genres,
                         tasks, batch, doneOrder, movies, result, cache, fg, disc>>

\* await _redis.set(key, json.dumps(items), ex=CACHE_TTL_POPULAR); return items
PopSet(ep) ==
  /\ UNCHANGED <<co, twin>>
  /\ pc = "popular"
  /\ pop[ep].pc = "set"
  /\ \/ Raise /\ UNCHANGED calls
     \/ /\ cache' = CacheSet(cache, PopularKey(ep), pop[ep].items,
                                Some(CACHE_TTL_POPULAR))
        /\ pop' = [pop EXCEPT ![ep].pc = "done"]
        /\ UNCHANGED <<params, pc, strategy, endpoints, endpoint, data, genres,
                       tasks, batch, doneOrder, movies, result, calls, fg, disc>>

\* the gather of the two get_popular calls returns; raw is built and the first
\* fetch_genres is entered
PopGathered ==
  /\ UNCHANGED <<co, twin>>
  /\ pc = "popular"
  /\ \A ep \in {"movie", "tv"} : pop[ep].pc = "done"
  /\ data' = pop["movie"].items \o pop["tv"].items
  /\ EnterFetchGenres("movie", "pop_movie")
  /\ UNCHANGED <<params, strategy, endpoints, endpoint, genres, tasks, batch,
                 doneOrder, movies, result, calls, cache, disc, pop>>

-----------------------------------------------------------------------------
(* map_to_movie: one coroutine per raw item, interleaved at its awaits *)

TaskVarsUnchanged ==
  UNCHANGED <<params, pc, strategy, endpoints, endpoint, data, genres, batch,
              movies, result, calls, cache, fg, disc, pop>>

\* the task returns its MovieResponse, or its construction raises
TaskFinish(i, t) ==
  IF \/ HasOmdb(t.omdb) /\ OmdbYearRaises(t.item, Val(t.omdb))
     \/ RecordInvalid(t.item, t.omdb)
  THEN Raise /\ UNCHANGED calls
  ELSE /\ tasks' = [tasks EXCEPT ![i] =
                      [t EXCEPT !.pc = "done",
                                !.rec = Some(MovieRecord(t.item, t.media_type, t.tax,
                                                         params, t.actors, t.imdb_id,
                                                         t.omdb))]]
       /\ doneOrder' = Append(doneOrder, i)
       /\ TaskVarsUnchanged

\* lines 305-312: the catalog fields, then actors = await _fetch_credits(...)
TaskCredits(i, world) ==
  /\ UNCHANGED <<co, twin>>
  /\ pc = "gather"
  /\ tasks[i].pc = "credits"
  /\ IF ItemYearRaises(tasks[i].item)
     THEN Raise /\ UNCHANGED calls
     ELSE \E outcome \in HttpOutcomesIn(world) :
          \* resp.raise_for_status()
          IF GetRaises(outcome) \/ RaisesForStatus(outcome)
          THEN Raise /\ calls' = Append(calls, ItemCall("credits", tasks[i].media_type,
                                                         tasks[i].item.id, outcome))
          ELSE /\ \E cast \in CastsIn(world, tasks[i].item) :
                    tasks' = [tasks EXCEPT ![i].pc = "imdb",
                                           ![i].actors = CastNames(cast)]
               /\ UNCHANGED doneOrder
               /\ TaskVarsUnchanged

\* _get_imdb_id: if resp.status_code == 200: return resp.json().get('imdb_id')
\* return None
\* (faulty variant: the body is read whatever the status)
GetImdbIdAnyStatus(outcome, id) == id
GetImdbId(outcome, id) == IF outcome = "200" THEN id ELSE None

\* imdb_id = await _get_imdb_id(...): None unless the status is 200
TaskImdb(i, world) ==
  /\ UNCHANGED <<co, twin>>
  /\ pc = "gather"
  /\ tasks[i].pc = "imdb"
  /\ \E outcome \in DetailOutcomesIn(world, tasks[i].item) :
     IF GetRaises(outcome)
     THEN Raise /\ calls' = Append(calls, ItemCall("detail", tasks[i].media_type,
                                                    tasks[i].item.id, outcome))
     ELSE \E id \in ImdbIdsIn(world, tasks[i].item) :
          LET imdb_id == GetImdbId(outcome, id) IN
          IF Truthy(imdb_id)
          THEN /\ tasks' = [tasks EXCEPT ![i].pc = "omdb", ![i].imdb_id = imdb_id,
                                         ![i].lookups = 1, ![i].detail = outcome]
               /\ UNCHANGED doneOrder
               /\ TaskVarsUnchanged
          ELSE TaskFinish(i, [tasks[i] EXCEPT !.imdb_id = imdb_id,
                                              !.detail = outcome])

\* what the body of an answer of the enrichment provider says: Response is
\* 'True', Response is 'False', or the body is not JSON (an error page)
OmdbResponses(outcome) ==
  IF outcome = "200" THEN {"True", "False"} ELSE {"False", "notjson"}

\* omdb = await _fetch_omdb_data(client, imdb_id): the payload when the status
\* is 200 and Response == 'True', else None; client.get and resp.json() raise
\* inside it and nothing catches them
TaskOmdb(i, world) ==
  /\ UNCHANGED <<co, twin>>
  /\ pc = "gather"
  /\ tasks[i].pc = "omdb"
  /\ \E outcome \in HttpOutcomesIn(world) :
     IF GetRaises(outcome)
     THEN Raise /\ calls' = Append(calls, ItemCall("omdb", tasks[i].media_type,
                                                    tasks[i].item.id, outcome))
     ELSE \E response \in OmdbResponses(outcome),
             data_ \in OmdbsIn(world, Val(tasks[i].imdb_id)) :
          \* data = resp.json()
          IF response = "notjson"
          THEN Raise /\ calls' = Append(calls, ItemCall("omdb", tasks[i].media_type,
                                                         tasks[i].item.id, outcome))
          ELSE TaskFinish(i, [tasks[i] EXCEPT
                                !.omdb = IF outcome = "200" /\ response = "True"
                                         THEN Some(data_) ELSE None])

-----------------------------------------------------------------------------
(* the gather of the mapping tasks returns, and the strategy finishes *)

\* asyncio.gather: the results in the order of the awaitables
\* (faulty variant: the results in the order the tasks finished)
GatherCompletionOrder(ts, from, order) ==
  [k \in 1..(Len(ts) - from + 1) |-> Val(ts[order[k]].rec)]
Gather(ts, from, order) ==
  [k \in 1..(Len(ts) - from + 1) |-> Val(ts[from + k - 1].rec)]

\* [m for m in mapped if matches(m, params)]
\* (faulty variant: no filtering)
FilterKeepAll(mapped, p) == mapped
Filter(mapped, p) ==
  SelectIdx(mapped, [i \in DOMAIN mapped |-> matches(mapped[i], p)], 1)

RECURSIVE InsertByTitle(_, _)
\* stable insertion: x goes before the first record whose title is greater
InsertByTitle(x, xs) ==
  IF xs = <<>> THEN <<x>>
  ELSE IF StrLess(x.title, xs[1].title) THEN <<x>> \o xs
  ELSE <<xs[1]>> \o InsertByTitle(x, Tail(xs))

RECURSIVE SortByTitle(_)
\* results.sort(key=lambda m: m.title)
SortByTitle(xs) ==
  IF xs = <<>> THEN <<>>
  ELSE InsertByTitle(xs[Len(xs)], SortByTitle(SubSeq(xs, 1, Len(xs) - 1)))

POPULAR_LIMIT == 20

\* results[:20]
Truncate(xs) == SubSeq(xs, 1, IF Len(xs) < POPULAR_LIMIT THEN Len(xs) ELSE POPULAR_LIMIT)

\* lines 154-156 of _get_popular_fallback
\* (faulty variant: the cut comes before the sort)
PopularResultTruncateFirst(mapped, p) ==
  IF ~Truthy(p.title) THEN SortByTitle(Truncate(mapped)) ELSE Truncate(mapped)
PopularResult(mapped, p) ==
  Truncate(IF ~Truthy(p.title) THEN SortByTitle(mapped) ELSE mapped)

GatherReturn ==
  /\ UNCHANGED <<co, twin>>
  /\ pc = "gather"
  /\ \A i \in batch..Len(tasks) : tasks[i].pc = "done"
  /\ LET mapped == Gather(tasks, batch, doneOrder) IN
     CASE strategy = "title_only" ->
            /\ movies' = movies \o mapped
            /\ endpoints' = Tail(endpoints)
            /\ IF Tail(endpoints) # <<>>
               THEN pc' = "search" /\ result' = result
               ELSE pc' = "done" /\ result' = movies'
       [] strategy \in {"title_with_filters", "filters_only"} ->
            /\ result' = Filter(mapped, params)
            /\ pc' = "done"
            /\ UNCHANGED <<movies, endpoints>>
       [] OTHER ->
            /\ result' = PopularResult(mapped, params)
            /\ pc' = "done"
            /\ UNCHANGED <<movies, endpoints>>
  /\ UNCHANGED <<params, strategy, endpoint, data, genres, tasks, batch,
                 doneOrder, calls, cache, fg, disc, pop>>

-----------------------------------------------------------------------------
(* One request against the upstreams of the small data set *)

Next ==
  \/ Route
  \/ Search(MaxResults)
  \/ FgGet
  \/ FgHttp
  \/ FgSet
  \/ DiscPerson
  \/ DiscCredits(MaxResults)
  \/ DiscCall(MaxResults)
  \/ \E ep \in {"movie", "tv"} : PopGet(ep)
  \/ \E ep \in {"movie", "tv"} : PopHttp(ep, "catalog")
  \/ \E ep \in {"movie", "tv"} : PopSet(ep)
  \/ PopGathered
  \/ \E i \in DOMAIN tasks : TaskCredits(i, "catalog")
  \/ \E i \in DOMAIN tasks : TaskImdb(i, "catalog")
  \/ \E i \in DOMAIN tasks : TaskOmdb(i, "catalog")
  \/ GatherReturn

Spec == Init /\ [][Next]_vars

-----------------------------------------------------------------------------
(* search_tmdb applied to every query shape, empty strings included *)

AllQueries ==
  [genre  : {None, Some(<<>>), Some(S_aA), Some(S_xx)},
   title  : {None, Some(<<>>), Some(S_a)},
   type   : {None, Some("movie"), Some("series")},
   actors : {None, Some(<<>>), Some(S_b)}]

InitRouter == \E q \in AllQueries : InitRequest(q, ColdCache)

SpecRouter == InitRouter /\ [][Route]_vars

-----------------------------------------------------------------------------
(* matches applied to one record and one query *)

MatchRecord(t, g, a) ==
  [genres |-> g, id |-> <<"7">>, title |-> S_a, type |-> t, actors |-> a,
   year |-> None, director |-> None, runtime |-> None, plot |-> None,
   poster_url |-> None, ratings |-> <<>>, source |-> "TMDB"]

MatchRecords ==
  {MatchRecord(t, g, a) :
     t \in {"movie", "series"},
     g \in {<<>>, <<S_Aa>>, <<S_b, S_aA>>},
     a \in {<<>>, <<S_Xb>>, <<S_a, S_B>>}}

MatchQueries ==
  [genre  : {None, Some(<<>>), Some(S_aA), Some(S_B), Some(S_a)},
   title  : {None},
   type   : {None, Some("movie"), Some("series")},
   actors : {None, Some(<<>>), Some(S_b), Some(<<"x", "B">>), Some(<<"b", "a">>)}]

InitMatch ==
  \E q \in MatchQueries, r \in MatchRecords :
    /\ params = q
    /\ pc = "matches"
    /\ strategy = "none"
    /\ endpoints = <<>>
    /\ endpoint = "movie"
    /\ data = <<r>>
    /\ genres = NoGenres
    /\ tasks = <<>>
    /\ batch = 1
    /\ doneOrder = <<>>
    /\ movies = <<>>
    /\ result = <<>>
    /\ calls = <<>>
    /\ cache = ColdCache
    /\ fg = NoFg
    /\ disc = NoDisc
    /\ pop = NoPop
    /\ co = NoCo
    /\ twin = NoTwin

\* result holds what matches(movie, params) returned
MatchesCall ==
  /\ UNCHANGED <<co, twin>>
  /\ pc = "matches"
  /\ result' = <<matches(data[1], params)>>
  /\ pc' = "matched"
  /\ UNCHANGED <<params, strategy, endpoints, endpoint, data, genres, tasks, batch,
                 doneOrder, movies, calls, cache, fg, disc, pop>>

SpecMatch == InitMatch /\ [][MatchesCall]_vars

-----------------------------------------------------------------------------
(* map_to_movie applied to one raw item *)

InitMap ==
  \E item \in MapItems, mt \in {"movie", "tv"}, t \in {None, Some("movie"), Some("series")} :
    /\ params = [genre |-> None, title |-> None, type |-> t, actors |-> None]
    /\ pc = "gather"
    /\ strategy = "none"
    /\ endpoints = <<>>
    /\ endpoint = mt
    /\ data = <<item>>
    /\ genres = [NoGenres EXCEPT ![mt] = TaxUp(mt)]
    /\ tasks = <<Task(item, mt, TaxUp(mt))>>
    /\ batch = 1
    /\ doneOrder = <<>>
    /\ movies = <<>>
    /\ result = <<>>
    /\ calls = <<>>
    /\ cache = ColdCache
    /\ fg = NoFg
    /\ disc = NoDisc
    /\ pop = NoPop
    /\ co = NoCo
    /\ twin = NoTwin

NextMap ==
  \/ \E i \in DOMAIN tasks : TaskCredits(i, "any")
  \/ \E i \in DOMAIN tasks : TaskImdb(i, "any")
  \/ \E i \in DOMAIN tasks : TaskOmdb(i, "any")

SpecMap == InitMap /\ [][NextMap]_vars

-----------------------------------------------------------------------------
(* the popular fallback on popularity lists longer than its limit; the mapping
   tasks are run one after the other, in the order of the raw items *)

InitPopular ==
  \E t \in {None, Some(<<>>)} :
    InitRequest([genre |-> None, title |-> t, type |-> None, actors |-> None], WarmCache)

\* the lowest task that has not returned
IsNextTask(i) == \A j \in 1..(i - 1) : tasks[j].pc = "done"

NextPopular ==
  \/ Route
  \/ \E ep \in {"movie", "tv"} : PopGet(ep)
  \/ \E ep \in {"movie", "tv"} : PopHttp(ep, "charts")
  \/ \E ep \in {"movie", "tv"} : PopSet(ep)
  \/ PopGathered
  \/ FgGet
  \/ \E i \in DOMAIN tasks : IsNextTask(i) /\ TaskCredits(i, "charts")
  \/ \E i \in DOMAIN tasks : IsNextTask(i) /\ TaskImdb(i, "charts")
  \/ GatherReturn

SpecPopular == InitPopular /\ [][NextPopular]_vars

-----------------------------------------------------------------------------
(* discover_by_filters applied to every query that reaches it, against caches
   that hold no taxonomy, the taxonomies of the data set, or their later
   edition; the run ends where the mapping of the returned items starts *)

\* the cache after the later edition of the taxonomies was fetched
LaterCache ==
  [k \in CacheKeys |->
     IF k = "genres:tv" THEN Some([val |-> JsonDumpsTax(TaxLater("tv")), ttl |-> None])
     ELSE IF k = "genres:movie"
          THEN Some([val |-> JsonDumpsTax(TaxLater("movie")), ttl |-> None])
     ELSE None]

\* the queries search_tmdb hands to discover_by_filters
DiscoverQueries ==
  {q \in Queries : \/ Classify(q) = "filters_only"
                   \/ /\ Classify(q) = "title_with_filters"
                      /\ Truthy(q.actors) /\ q.type = Some("series")}

InitDiscover ==
  \E q \in DiscoverQueries, c \in {ColdCache, WarmCache, LaterCache} : InitRequest(q, c)

NextDiscover ==
  \/ Route
  \/ FgGet
  \/ FgHttp
  \/ FgSet
  \/ DiscPerson
  \/ DiscCredits(MaxResults)
  \/ DiscCall(MaxResults)

SpecDiscover == InitDiscover /\ [][NextDiscover]_vars

-----------------------------------------------------------------------------
(* fetch_genres (of the series taxonomy) and get_popular (of the movie list)
   called again and again by concurrent requests, while the upstream data
   changes and the popularity entries expire *)

\* what a successful upstream fetch of a function may return
Editions(fn, ep) ==
  IF fn = "fetch_genres" THEN {TaxUp(ep), TaxLater(ep)} ELSE PopularIn("catalog", ep)

\* key = f"genres:{endpoint}" / key = f"popular:{endpoint}"
CoKey(fn, ep) == IF fn = "fetch_genres" THEN GenresKey(ep) ELSE PopularKey(ep)

\* json.dumps(mapping) / json.dumps(items)
CoDumps(fn, v) == IF fn = "fetch_genres" THEN JsonDumpsTax(v) ELSE v

\* {int(k): v for k, v in json.loads(cached).items()} / json.loads(cached)
CoLoads(fn, cached) == IF fn = "fetch_genres" THEN JsonLoadsTax(cached) ELSE cached

\* the ex= argument of _redis.set
\* (faulty variant: every entry is stored with the TTL of the popularity lists)
CoExAlways(fn) == Some(CACHE_TTL_POPULAR)
CoEx(fn) == IF fn = "fetch_genres" THEN None ELSE Some(CACHE_TTL_POPULAR)

\* the kind of the upstream request
CoKind(fn) == IF fn = "fetch_genres" THEN "genres" ELSE "popular"

\* the time of one clock step
TickLen == CACHE_TTL_POPULAR \div TtlTicks

\* the store one clock step later: the time to live of an entry that has one
\* runs down, to 0 at the least
Expire(c) ==
  [k \in DOMAIN c |->
     IF c[k] # None /\ Val(c[k]).ttl # None
     THEN Some([val |-> Val(c[k]).val,
                ttl |-> Some(IF Val(Val(c[k]).ttl) > TickLen
                             THEN Val(Val(c[k]).ttl) - TickLen ELSE 0)])
     ELSE c[k]]

\* the requests that run concurrently
Requests == {"a", "b"}

IdleCo == [pc |-> "idle", ep |-> "movie", val |-> <<>>, fn |-> "none"]

\* the calls that may still make an upstream request
CoPending == {r \in DOMAIN co : co[r].pc \in {"get", "http"}}

InitCache ==
  /\ InitRequestVars([genre |-> None, title |-> None, type |-> None, actors |-> None],
                     ColdCache)
  /\ co = [r \in Requests |-> IdleCo]
  /\ twin = NoTwin

CoVarsUnchanged ==
  UNCHANGED <<params, pc, strategy, endpoints, endpoint, data, genres, tasks, batch,
              doneOrder, movies, result, fg, disc, pop, twin>>

\* request r calls fetch_genres(client, is_series) or get_popular(client, is_series)
CoCall(r, fn, ep) ==
  /\ co[r].pc \in {"idle", "returned", "raised"}
  /\ Len(calls) + Cardinality(CoPending) < MaxCalls
  /\ co' = [co EXCEPT ![r] = [pc |-> "get", ep |-> ep, val |-> <<>>, fn |-> fn]]
  /\ UNCHANGED <<calls, cache>>
  /\ CoVarsUnchanged

\* cached = await _redis.get(key); if cached: return the loaded value
CoGet(r) ==
  /\ co[r].pc = "get"
  /\ \/ co' = [co EXCEPT ![r].pc = "raised"]
     \/ /\ Cached(cache, CoKey(co[r].fn, co[r].ep))
        /\ co' = [co EXCEPT ![r].pc = "returned",
                            ![r].val = CoLoads(co[r].fn,
                                               Val(cache[CoKey(co[r].fn, co[r].ep)]).val)]
     \/ /\ ~Cached(cache, CoKey(co[r].fn, co[r].ep))
        /\ co' = [co EXCEPT ![r].pc = "http"]
  /\ UNCHANGED <<calls, cache>>
  /\ CoVarsUnchanged

\* resp = await client.get(...); resp.raise_for_status(); the value is built
CoHttp(r) ==
  /\ co[r].pc = "http"
  /\ \E outcome \in HttpOutcomes :
     IF GetRaises(outcome) \/ RaisesForStatus(outcome)
     THEN /\ calls' = Append(calls, Call(CoKind(co[r].fn), co[r].ep, None, None, <<>>,
                                         outcome))
          /\ co' = [co EXCEPT ![r].pc = "raised"]
     ELSE \E v \in Editions(co[r].fn, co[r].ep) :
          /\ calls' = Append(calls, Call(CoKind(co[r].fn), co[r].ep, None, None, v,
                                         outcome))
          /\ co' = [co EXCEPT ![r].pc = "set", ![r].val = v]
  /\ UNCHANGED cache
  /\ CoVarsUnchanged

\* await _redis.set(key, json.dumps(value)[, ex=CACHE_TTL_POPULAR]); return value
CoSet(r) ==
  /\ co[r].pc = "set"
  /\ \/ co' = [co EXCEPT ![r].pc = "raised"] /\ UNCHANGED cache
     \/ /\ cache' = CacheSet(cache, CoKey(co[r].fn, co[r].ep),
                              CoDumps(co[r].fn, co[r].val), CoEx(co[r].fn))
        /\ co' = [co EXCEPT ![r].pc = "returned"]
  /\ UNCHANGED calls
  /\ CoVarsUnchanged

\* time passes
Tick ==
  /\ cache' = Expire(cache)
  /\ cache' # cache
  /\ UNCHANGED <<calls, co>>
  /\ CoVarsUnchanged

NextCache ==
  \/ \E r \in Requests : CoCall(r, "fetch_genres", "tv")
  \/ \E r \in Requests : CoCall(r, "get_popular", "movie")
  \/ \E r \in Requests : CoGet(r)
  \/ \E r \in Requests : CoHttp(r)
  \/ \E r \in Requests : CoSet(r)
  \/ Tick

SpecCache == InitCache /\ [][NextCache]_vars

-----------------------------------------------------------------------------
(* search_tmdb called twice with queries that differ in their title only: a
   titled series query with actors, then the same query under another title,
   against the same cache, with Redis up and the upstreams answering the second
   request as they answered the first *)

\* the titles of the two queries
TwinTitles == {S_a, S_B}

\* the queries with a title, actors and type = series
TitleQueries ==
  {q \in Queries : Truthy(q.title) /\ Truthy(q.actors) /\ q.type = Some("series")}

InitTitle ==
  \E q \in TitleQueries, c \in {ColdCache, WarmCache, LaterCache} :
    /\ InitRequestVars(q, c)
    /\ co = NoCo
    /\ twin = [NoTwin EXCEPT !.cache0 = c]

\* the first request has ended; what it did is kept, and search_tmdb is called
\* with its query under another title, against the cache the first one found
TwinRequest ==
  /\ pc \in {"done", "error"}
  /\ ~twin.ran
  /\ twin' = [ran |-> TRUE, title0 |-> params.title, cache0 |-> twin.cache0,
              calls0 |-> calls, tasks0 |-> tasks, result0 |-> result, pc0 |-> pc]
  /\ \E t \in TwinTitles \ {Val(params.title)} :
       params' = [params EXCEPT !.title = Some(t)]
  /\ pc' = "start"
  /\ strategy' = "none"
  /\ endpoints' = <<>>
  /\ endpoint' = "movie"
  /\ data' = <<>>
  /\ genres' = NoGenres
  /\ tasks' = <<>>
  /\ batch' = 1
  /\ doneOrder' = <<>>
  /\ movies' = <<>>
  /\ result' = <<>>
  /\ calls' = <<>>
  /\ cache' = twin.cache0
  /\ fg' = NoFg
  /\ disc' = NoDisc
  /\ pop' = NoPop
  /\ UNCHANGED co

\* the upstreams answer the requests of the second request as they answered
\* those of the first: the k-th request ends the same way with the same list,
\* and the requests of the task of the same item bring the same data
SameAnswers ==
  twin.ran =>
    /\ \A k \in DOMAIN calls :
         k <= Len(twin.calls0) =>
           /\ calls[k].outcome = twin.calls0[k].outcome
           /\ calls[k].results = twin.calls0[k].results
    /\ \A i \in DOMAIN tasks :
         (/\ i <= Len(twin.tasks0)
          /\ tasks[i].pc = "done"
          /\ tasks[i].item = twin.tasks0[i].item) =>
           /\ tasks[i].actors = twin.tasks0[i].actors
           /\ tasks[i].imdb_id = twin.tasks0[i].imdb_id
           /\ tasks[i].omdb = twin.tasks0[i].omdb
           /\ tasks[i].detail = twin.tasks0[i].detail

\* Redis answers every get and set
RedisUp == pc # "error"

NextTitle ==
  \/ Route
  \/ FgGet /\ RedisUp'
  \/ FgHttp /\ SameAnswers'
  \/ FgSet /\ RedisUp'
  \/ DiscPerson /\ SameAnswers'
  \/ DiscCredits(MaxResults) /\ SameAnswers'
  \/ \E i \in DOMAIN tasks : TaskCredits(i, "charts") /\ SameAnswers'
  \/ \E i \in DOMAIN tasks : TaskImdb(i, "charts") /\ SameAnswers'
  \/ \E i \in DOMAIN tasks : TaskOmdb(i, "charts") /\ SameAnswers'
  \/ GatherReturn
  \/ TwinRequest

SpecTitle == InitTitle /\ [][NextTitle]_vars

-----------------------------------------------------------------------------
(* Properties *)

CallsOfKind(kinds) == SelectSeq(calls, LAMBDA c : c.kind \in kinds)

\* a str field of the query is set: given and not empty
IsSet(o) == o # None /\ o # Some(<<>>)

AnyFilterSet == IsSet(params.genre) \/ IsSet(params.actors) \/ params.type # None

\* C1: search_tmdb selects one strategy per query: title-only for a title and
\* no filter, title-with-filters for a title and a filter, filters-only for a
\* filter and no title, popular-fallback when nothing is set; a type alone is
\* a filter.
C1_RouterSelectsStrategy ==
  strategy # "none" =>
    /\ (IsSet(params.title) /\ ~AnyFilterSet) => strategy = "title_only"
    /\ (IsSet(params.title) /\ AnyFilterSet) => strategy = "title_with_filters"
    /\ (~IsSet(params.title) /\ AnyFilterSet) => strategy = "filters_only"
    /\ (~IsSet(params.title) /\ ~AnyFilterSet) => strategy = "popular"
    /\ (params.type # None => strategy \in {"title_with_filters", "filters_only"})

C1_Witness ==
  /\ strategy = "title_with_filters"
  /\ params.type # None
  /\ params.genre = None
  /\ params.actors = None

\* C3: a title-only request returns one mapped record per raw item of the
\* series title search followed by one per raw item of the movie title search;
\* both endpoints are queried and nothing is filtered out.
C3_TitleOnlyConcatenatesBothEndpoints ==
  (pc = "done" /\ strategy = "title_only") =>
    LET searches == CallsOfKind({"search"}) IN
    /\ Len(searches) = 2
    /\ searches[1].ep = "tv"
    /\ searches[2].ep = "movie"
    /\ CallsOfKind({"discover", "person", "tv_credits", "popular"}) = <<>>
    /\ LET raw == searches[1].results \o searches[2].results
           nTv == Len(searches[1].results)
       IN  /\ Len(result) = Len(raw)
           /\ \A k \in DOMAIN raw :
                /\ tasks[k].item = raw[k]
                /\ tasks[k].media_type = (IF k <= nTv THEN "tv" ELSE "movie")
                /\ result[k] = Val(tasks[k].rec)
                /\ result[k].type = (IF k <= nTv THEN "series" ELSE "movie")

C3_Witness ==
  /\ pc = "done"
  /\ strategy = "title_only"
  /\ Len(result) = 2
  /\ result[1].type = "series"
  /\ result[2].type = "movie"

\* C4: candidates come from filter-discovery exactly when the query has no
\* title or has a title with actors set and type = series; every other titled
\* query with filters takes them from one title search on a single endpoint;
\* the endpoint or discovery path is the series one iff type = series.
C4_CandidateSource ==
  (strategy \in {"title_with_filters", "filters_only"} /\ pc \in {"gather", "done"}) =>
    LET fromDiscovery ==
          \/ ~IsSet(params.title)
          \/ IsSet(params.actors) /\ params.type = Some("series")
        ep == IF params.type = Some("series") THEN "tv" ELSE "movie"
        searches == CallsOfKind({"search"})
        discovers == CallsOfKind({"discover", "person", "tv_credits"})
    IN  /\ endpoint = ep
        /\ \A k \in DOMAIN calls : calls[k].ep = ep
        /\ IF fromDiscovery
           THEN /\ searches = <<>>
                /\ discovers # <<>>
                /\ discovers[Len(discovers)].kind = "person"
                   \/ \A k \in DOMAIN data :
                        \E j \in DOMAIN discovers[Len(discovers)].results :
                          discovers[Len(discovers)].results[j] = data[k]
           ELSE /\ discovers = <<>>
                /\ Len(searches) = 1
                /\ data = searches[1].results

C4_Witness ==
  /\ pc = "done"
  /\ strategy = "title_with_filters"
  /\ params.type = Some("series")
  /\ IsSet(params.genre)
  /\ params.actors = None
  /\ Len(CallsOfKind({"search"})) = 1
  /\ Len(data) = 2

\* the fields of a record the Match Filter tests, as the claim words them
PassesSuppliedFilters(r, p) ==
  /\ p.type # None => r.type = Val(p.type)
  /\ IsSet(p.genre) => \E i \in DOMAIN r.genres : Lower(r.genres[i]) = Lower(Val(p.genre))
  /\ IsSet(p.actors) =>
       \E i \in DOMAIN r.actors : Contains(Lower(Val(p.actors)), Lower(r.actors[i]))

\* the records of the gather now (or last) awaited, in the order of the raw items
MappedNow == [k \in 1..(Len(tasks) - batch + 1) |-> Val(tasks[batch + k - 1].rec)]

\* C5: in the title-with-filters and filters-only strategies the returned list
\* holds exactly the mappings of the candidates that pass every supplied filter
\* field: none failing one is kept, none passing all is removed.
C5_ResultIsFilteredCandidates ==
  (pc = "done" /\ strategy \in {"title_with_filters", "filters_only"}) =>
    /\ Len(tasks) = Len(data)
    /\ \A k \in DOMAIN data : tasks[k].item = data[k]
    /\ result = SelectSeq(MappedNow, LAMBDA r : PassesSuppliedFilters(r, params))

C5_Witness ==
  /\ pc = "done"
  /\ strategy \in {"title_with_filters", "filters_only"}
  /\ Len(data) = 2
  /\ Len(result) = 1

RECURSIVE IsOrderedSubSeq(_, _)
\* xs is ys with some entries left out, the rest in the same relative order
IsOrderedSubSeq(xs, ys) ==
  IF xs = <<>> THEN TRUE
  ELSE IF ys = <<>> THEN FALSE
  ELSE IF xs[1] = ys[1] THEN IsOrderedSubSeq(Tail(xs), Tail(ys))
  ELSE IsOrderedSubSeq(xs, Tail(ys))

\* C7: the mapping tasks of a result set finish in any order, and the returned
\* list keeps the order of the raw items: in title-only the k-th record is the
\* mapping of the k-th raw item, in the filtered strategies the survivors are
\* in the order of their raw items.
C7_OrderOfRawItemsKept ==
  (pc = "done" /\ strategy \in {"title_only", "title_with_filters", "filters_only"}) =>
    /\ \A k \in batch..Len(tasks) : tasks[k].item = data[k - batch + 1]
    /\ IF strategy = "title_only"
       THEN result = [k \in DOMAIN tasks |-> Val(tasks[k].rec)]
       ELSE IsOrderedSubSeq(result, MappedNow)

C7_Witness ==
  /\ pc = "done"
  /\ strategy \in {"title_with_filters", "filters_only"}
  /\ doneOrder = <<2, 1>>
  /\ Len(result) = 2
  /\ result[1] # result[2]

\* C2: matches returns false exactly when the query type is set and differs
\* from the record's, or the query genre is set and equals no genre of the
\* record ignoring case, or the query actors is set and is contained in no
\* actor of the record ignoring case; it returns true in every other case.
C2_MatchesExcludesExactly ==
  pc = "matched" =>
    LET r == data[1]
        typeDiffers == params.type # None /\ Val(params.type) # r.type
        noGenre ==
          /\ IsSet(params.genre)
          /\ \A i \in DOMAIN r.genres : Lower(r.genres[i]) # Lower(Val(params.genre))
        noActor ==
          /\ IsSet(params.actors)
          /\ \A i \in DOMAIN r.actors :
               ~Contains(Lower(Val(params.actors)), Lower(r.actors[i]))
    IN  /\ result[1] = ~(typeDiffers \/ noGenre \/ noActor)
        /\ (params.type = None /\ ~IsSet(params.genre) /\ ~IsSet(params.actors))
             => result[1] = TRUE

C2_Witness ==
  /\ pc = "matched"
  /\ result = <<TRUE>>
  /\ params.type = Some("series")
  /\ params.genre = Some(S_aA)
  /\ params.actors = Some(<<"x", "B">>)
  /\ data[1].genres = <<S_Aa>>

\* C8: a record of map_to_movie has source Merged iff a cross-reference ID was
\* resolved and the enrichment lookup for it returned a successful payload;
\* otherwise its source is TMDB.
C8_MergedIffEnrichmentSucceeded ==
  \A i \in DOMAIN tasks :
    tasks[i].pc = "done" =>
      LET rec == Val(tasks[i].rec)
          enriched ==
            /\ IsSet(tasks[i].imdb_id)
            /\ tasks[i].lookups = 1
            /\ tasks[i].omdb # None
      IN  /\ rec.source = "Merged" <=> enriched
          /\ rec.source = "TMDB" <=> ~enriched

C8_Witness ==
  /\ tasks # <<>>
  /\ tasks[1].pc = "done"
  /\ IsSet(tasks[1].imdb_id)
  /\ tasks[1].omdb = None
  /\ Val(tasks[1].rec).source = "TMDB"

\* C9: when no cross-reference ID is resolved for an item, no enrichment lookup
\* is issued and the record has source TMDB, empty ratings, director, runtime
\* and plot unset, and id the decimal rendering of the catalog id.
C9_NoCrossReferenceId ==
  \A i \in DOMAIN tasks :
    (tasks[i].pc = "done" /\ ~IsSet(tasks[i].imdb_id)) =>
      LET rec == Val(tasks[i].rec) IN
      /\ tasks[i].lookups = 0
      /\ tasks[i].omdb = None
      /\ rec.source = "TMDB"
      /\ DOMAIN rec.ratings = {}
      /\ rec.director = None
      /\ rec.runtime = None
      /\ rec.plot = None
      /\ ParseInt(rec.id) = Some(tasks[i].item.id)
      /\ Len(rec.id) = 1 \/ rec.id[1] # "0"

C9_Witness ==
  /\ tasks # <<>>
  /\ tasks[1].pc = "done"
  /\ tasks[1].imdb_id = Some(<<>>)
  /\ Val(tasks[1].rec).id = <<"1", "2", "0">>

Count(xs, x) == Cardinality({k \in DOMAIN xs : xs[k] = x})

\* C6: the popular fallback of a query with an empty title returns
\* min(20, m + s) records, never more than 20, sorted ascending by title; as the
\* sort comes before the cut they are the records of smallest title of the
\* whole mapped list.
C6_PopularSortedThenCut ==
  (pc = "done" /\ strategy = "popular" /\ ~IsSet(params.title)) =>
    LET m == Len(pop["movie"].items)
        s == Len(pop["tv"].items)
    IN  /\ Len(MappedNow) = m + s
        /\ Len(result) = (IF m + s < 20 THEN m + s ELSE 20)
        /\ Len(result) <= 20
        /\ \A i, j \in DOMAIN result :
             i < j => ~StrLess(result[j].title, result[i].title)
        /\ \A k \in DOMAIN result : Count(result, result[k]) <= Count(MappedNow, result[k])
        /\ \A k \in DOMAIN MappedNow :
             Count(result, MappedNow[k]) < Count(MappedNow, MappedNow[k]) =>
               \A j \in DOMAIN result : ~StrLess(MappedNow[k].title, result[j].title)

C6_Witness ==
  /\ pc = "done"
  /\ strategy = "popular"
  /\ Len(pop["movie"].items) + Len(pop["tv"].items) > 20
  /\ Len(result) = 20
  /\ result[1] # MappedNow[1]
  /\ \E k \in DOMAIN MappedNow : k <= 20 /\ Count(result, MappedNow[k]) = 0

\* the last element of a non-empty sequence
Last(xs) == xs[Len(xs)]

\* C11: when the cache holds a taxonomy for a media type, fetch_genres returns
\* a mapping identical to the one the upstream fetch that populated the entry
\* returned, makes no upstream taxonomy request and writes nothing to the
\* cache; only a call that missed goes on to fetch, and the entry is only ever
\* overwritten by such a call, with the mapping it fetched.
C11_TaxonomyCacheHit ==
  [][/\ \A r \in Requests :
          (co[r].fn = "fetch_genres" /\ co[r].pc = "get"
             /\ co'[r].pc \notin {"get", "raised"}) =>
            IF cache[GenresKey(co[r].ep)] # None
            THEN /\ co'[r].pc = "returned"
                 /\ calls' = calls
                 /\ cache' = cache
                 /\ \E k \in DOMAIN calls :
                      /\ calls[k].kind = "genres"
                      /\ calls[k].ep = co[r].ep
                      /\ calls[k].outcome = "200"
                      /\ JsonDumpsTax(calls[k].results) = Val(cache[GenresKey(co[r].ep)]).val
                      /\ co'[r].val = calls[k].results
            ELSE co'[r].pc = "http"
     /\ \A ep \in {"movie", "tv"} :
          cache'[GenresKey(ep)] # cache[GenresKey(ep)] =>
            \E r \in Requests :
              /\ co[r].fn = "fetch_genres" /\ co[r].ep = ep /\ co[r].pc = "set"
              /\ \E k \in DOMAIN calls :
                   /\ calls[k].kind = "genres" /\ calls[k].ep = ep
                   /\ calls[k].outcome = "200"
                   /\ calls[k].results = co[r].val
              /\ cache'[GenresKey(ep)] # None
              /\ JsonLoadsTax(Val(cache'[GenresKey(ep)]).val) = co[r].val
    ]_vars

\* two calls returned the later edition of the series taxonomy (ids 0 and 10)
\* and one upstream taxonomy request was made: one of them was served from the
\* entry the other had written
C11_Witness ==
  /\ \A r \in Requests :
       /\ co[r].fn = "fetch_genres"
       /\ co[r].pc = "returned"
       /\ co[r].val = TaxLater("tv")
  /\ Len(CallsOfKind({"genres"})) = 1
  /\ cache[GenresKey("tv")] # None

\* the Catalog Provider requests of claim C12
CatalogKinds == {"search", "discover", "person", "tv_credits", "popular", "genres",
                 "credits"}

\* C12: when a Catalog Provider search, discovery, person-search, popularity,
\* taxonomy or credits request of a request ends in a non-2xx status or a
\* network error, it is the last request made and the request is in the error
\* state from then on, with every record mapped so far dropped: no list,
\* partial or not, is returned.
C12_CatalogFailureIsFatal ==
  \A k \in DOMAIN calls :
    (calls[k].kind \in CatalogKinds /\ calls[k].outcome # "200") =>
      /\ k = Len(calls)
      /\ pc = "error"
      /\ movies = <<>>
      /\ tasks = <<>>
      /\ result = <<>>

\* the search returned two items, the credits request of the second one was
\* answered with a non-2xx status, and the request is in the error state
C12_Witness ==
  /\ pc = "error"
  /\ calls # <<>>
  /\ Last(calls).kind = "credits"
  /\ Last(calls).outcome = "non2xx"
  /\ Last(calls).item_id = Some(ItemB.id)
  /\ \E k \in DOMAIN calls :
       calls[k].kind = "search" /\ calls[k].results = <<ItemA, ItemB>>
  /\ result = <<>>

\* C13 as stated: a non-2xx answer to the per-item detail request is fatal, so
\* no mapping task is left whose detail request was answered with one (the
\* tasks are dropped when the request fails).
C13_DetailNon2xxIsFatal ==
  \A i \in DOMAIN tasks : tasks[i].detail # "non2xx"

\* C13, amended: a non-2xx answer to the per-item detail request does not fail
\* the request; the item is mapped as one without cross-reference id: no
\* enrichment lookup is made and its record is returned with its catalog id
\* and provenance PrimaryOnly.
C13_DetailNon2xxDegrades ==
  \A i \in DOMAIN tasks :
    tasks[i].detail = "non2xx" =>
      /\ pc # "error"
      /\ tasks[i].pc = "done"
      /\ tasks[i].imdb_id = None
      /\ tasks[i].lookups = 0
      /\ tasks[i].omdb = None
      /\ tasks[i].rec # None
      /\ Val(tasks[i].rec).id = IntToStr(tasks[i].item.id)
      /\ Val(tasks[i].rec).source = "TMDB"
      /\ (pc = "done" /\ strategy = "title_only") =>
           \E k \in DOMAIN result : result[k] = Val(tasks[i].rec)

\* a title-only request has returned a list that holds the record of an item
\* whose detail request was answered with a non-2xx status
C13_Witness ==
  /\ pc = "done"
  /\ strategy = "title_only"
  /\ \E i \in DOMAIN tasks :
       /\ tasks[i].detail = "non2xx"
       /\ tasks[i].item = ItemA
       /\ \E k \in DOMAIN result : result[k] = Val(tasks[i].rec)

\* C14: a failure of the enrichment lookup of an item (the provider reports
\* failure, answers with a non-2xx status, or the request ends in a network
\* error or timeout) never fails the request: the request is never in the
\* error state because an enrichment request raised, and an item whose lookup
\* was made and gave nothing has provenance PrimaryOnly, director, runtime and
\* plot unset, empty ratings and the poster of the catalog poster path only.
C14_EnrichmentFailureNeverFatal ==
  /\ ~(pc = "error" /\ calls # <<>> /\ Last(calls).kind = "omdb")
  /\ \A i \in DOMAIN tasks :
       (tasks[i].pc = "done" /\ tasks[i].lookups = 1 /\ tasks[i].omdb = None) =>
         LET rec == Val(tasks[i].rec) IN
         /\ rec.source = "TMDB"
         /\ rec.director = None
         /\ rec.runtime = None
         /\ rec.plot = None
         /\ DOMAIN rec.ratings = {}
         /\ rec.poster_url = (IF IsSet(tasks[i].item.poster_path)
                              THEN Some(ImageBase \o Val(tasks[i].item.poster_path))
                              ELSE None)

\* discover_by_filters has just returned: search_tmdb holds its items in data
\* and waits for the taxonomy it maps them with
DiscoverReturned == pc = "fg_get" /\ fg.ret = "map" /\ tasks = <<>>

\* the person search was answered, with no person
PersonUnmatched ==
  /\ Len(CallsOfKind({"person"})) = 1
  /\ CallsOfKind({"person"})[1].outcome = "200"
  /\ CallsOfKind({"person"})[1].results = <<>>

\* the person search was answered, with at least one person
PersonMatched ==
  /\ Len(CallsOfKind({"person"})) = 1
  /\ CallsOfKind({"person"})[1].outcome = "200"
  /\ CallsOfKind({"person"})[1].results # <<>>

\* the ids of the cached taxonomy of an endpoint whose name is the genre of the
\* query ignoring case; none when no genre is given
ResolvedIds(ep) ==
  IF Truthy(params.genre) /\ cache[GenresKey(ep)] # None
  THEN LET tax == JsonLoadsTax(Val(cache[GenresKey(ep)]).val)
       IN  {tax[k].id : k \in {j \in DOMAIN tax :
                                 Lower(tax[j].name) = Lower(Val(params.genre))}}
  ELSE {}

\* the one discovery request made carries the genre filter iff the genre
\* resolves, and its results are what discover_by_filters returned
OneDiscoveryCallReturned ==
  /\ Len(CallsOfKind({"discover"})) = 1
  /\ LET d == CallsOfKind({"discover"})[1] IN
     /\ d.ep = SeriesEp
     /\ IF ResolvedIds(SeriesEp) = {}
        THEN d.with_genres = None
        ELSE \E id \in ResolvedIds(SeriesEp) : d.with_genres = Some(IntToStr(id))
     /\ data = d.results

\* C15 as stated: on the series path as on the movie path, an actor name the
\* person search finds nobody for does not fail the query and is treated as if
\* no actor filter had been given: one discovery request is made, without cast
\* filter, with the genre filter if the genre resolves, and its results are
\* returned.
C15_UnmatchedActorIsNoFilter ==
  [][/\ (pc = "disc_person" /\ calls' # calls /\ Last(calls').outcome = "200"
           /\ Last(calls').results = <<>>) => pc' # "error"
     /\ (DiscoverReturned /\ Truthy(params.actors) /\ PersonUnmatched)' =>
          (/\ OneDiscoveryCallReturned
           /\ CallsOfKind({"discover"})[1].with_cast = None)'
    ]_vars

\* C15, amended: an actor name the person search finds nobody for does not
\* fail the query. On the movie path it is treated as if no actor filter had
\* been given: one discovery request is made, without cast filter, with the
\* genre filter if the genre resolves, and its results are returned. On the
\* series path the empty list is returned and no discovery or credits request
\* is made.
C15_UnmatchedActorMovieOnly ==
  [][/\ (pc = "disc_person" /\ calls' # calls /\ Last(calls').outcome = "200"
           /\ Last(calls').results = <<>>) => pc' # "error"
     /\ (DiscoverReturned /\ Truthy(params.actors) /\ PersonUnmatched)' =>
          (IF IsSeries
           THEN /\ CallsOfKind({"discover", "tv_credits"}) = <<>>
                /\ data = <<>>
                /\ endpoint = "tv"
           ELSE /\ OneDiscoveryCallReturned
                /\ CallsOfKind({"discover"})[1].with_cast = None)'
    ]_vars

\* a series query with a genre of the taxonomy and an actor nobody matches has
\* got the empty list from discover_by_filters
C15_Witness ==
  /\ DiscoverReturned
  /\ IsSeries
  /\ params.genre = Some(S_aA)
  /\ Truthy(params.actors)
  /\ PersonUnmatched
  /\ ResolvedIds("tv") # {}
  /\ data = <<>>
  /\ CallsOfKind({"discover"}) = <<>>

\* the shows of a credit list whose genre_ids hold the id, in credit order
CreditsOfGenre(credits, id) ==
  SelectSeq(credits, LAMBDA show : \E j \in DOMAIN show.genre_ids : show.genre_ids[j] = id)

\* C16: on the series path with actors set and a person found, the candidates
\* are the series credits of the first person found and no discovery request
\* is made; when the genre is set and resolves, whatever the taxonomy and the
\* id it resolves to, the list returned is exactly the credits whose genre_ids
\* hold that id, in credit order; when it does not resolve, the credits are
\* returned as they came.
C16_SeriesCreditsFilteredByGenre ==
  (DiscoverReturned /\ IsSeries /\ Truthy(params.actors) /\ PersonMatched) =>
    /\ CallsOfKind({"discover"}) = <<>>
    /\ Len(CallsOfKind({"tv_credits"})) = 1
    /\ LET credits == CallsOfKind({"tv_credits"})[1]
           person == CallsOfKind({"person"})[1].results[1]
       IN  /\ credits.with_cast = Some(IntToStr(person.id))
           /\ IF ResolvedIds("tv") = {}
              THEN data = credits.results
              ELSE \E id \in ResolvedIds("tv") : data = CreditsOfGenre(credits.results, id)

\* C17: the movie path makes exactly one discovery request; it carries a genre
\* filter iff a genre is given and its name is a name of the movie taxonomy
\* ignoring case (the filter is then the id of that name), and a cast filter
\* iff actors is given and the person search found somebody (the filter is
\* then the id of the first person). A genre that does not resolve and an
\* actor nobody matches lead to that request without the filter, not to an
\* error, and the answer to the request is what the path returns.
C17_MovieDiscoveryCall ==
  [][/\ (~IsSeries /\ calls' # calls /\ Last(calls').kind = "discover") =>
          /\ CallsOfKind({"discover"}) = <<>>
          /\ Last(calls').ep = "movie"
          /\ IF ResolvedIds("movie") = {}
             THEN Last(calls').with_genres = None
             ELSE \E id \in ResolvedIds("movie") :
                    Last(calls').with_genres = Some(IntToStr(id))
          /\ Truthy(params.genre) => cache[GenresKey("movie")] # None
          /\ IF Truthy(params.actors) /\ PersonMatched
             THEN Last(calls').with_cast =
                    Some(IntToStr(CallsOfKind({"person"})[1].results[1].id))
             ELSE Last(calls').with_cast = None
          /\ Truthy(params.actors) => (PersonMatched \/ PersonUnmatched)
          /\ ~Truthy(params.actors) => CallsOfKind({"person"}) = <<>>
          /\ Last(calls').outcome = "200" =>
               (DiscoverReturned' /\ data' = Last(calls').results /\ endpoint' = "movie")
     /\ (~IsSeries /\ pc = "disc_person" /\ calls' # calls
           /\ Last(calls').outcome = "200") => pc' = "disc_call"
     /\ (~IsSeries /\ fg.ret = "disc_movie" /\ pc \in {"fg_get", "fg_set"}
           /\ pc' \notin {"fg_get", "fg_http", "fg_set", "error"}) =>
          pc' \in {"disc_person", "disc_call"}
     /\ (~IsSeries /\ DiscoverReturned') => Len(CallsOfKind({"discover"})') = 1
    ]_vars

\* a movie query whose genre is written in another case than the taxonomy name
\* and whose actor is found: the discovery request carried both filters; and
\* its results were returned
C17_Witness ==
  /\ DiscoverReturned
  /\ ~IsSeries
  /\ params.genre = Some(S_aA)
  /\ Truthy(params.actors)
  /\ PersonMatched
  /\ Len(CallsOfKind({"discover"})) = 1
  /\ CallsOfKind({"discover"})[1].with_genres = Some(<<"1">>)
  /\ CallsOfKind({"discover"})[1].with_cast = Some(<<"5">>)
  /\ data = CallsOfKind({"discover"})[1].results
  /\ data # <<>>

\* the taxonomy of an endpoint is in the cache and no call of fetch_genres that
\* missed it is still on its way to the upstream
TaxonomySettled(ep) ==
  /\ Cached(cache, GenresKey(ep))
  /\ \A r \in Requests :
       ~(co[r].fn = "fetch_genres" /\ co[r].ep = ep /\ co[r].pc = "http")

\* C18: a taxonomy entry is written without TTL, so once the taxonomy of a
\* media type was fetched and stored, time never removes it and no later call
\* makes an upstream taxonomy request for that media type. A popularity entry
\* is written with the fixed TTL: while it has time to live get_popular
\* returns the cached list without an upstream request; it stops being served
\* only by the passing of time, when its time to live has run out; and a
\* get_popular that then reads the cache goes to the upstream and overwrites
\* the entry with the list it fetched and the full TTL again.
C18_CacheExpiry ==
  [][/\ \A ep \in {"movie", "tv"} :
          /\ cache'[GenresKey(ep)] # cache[GenresKey(ep)] =>
               (cache'[GenresKey(ep)] # None /\ Val(cache'[GenresKey(ep)]).ttl = None)
          /\ TaxonomySettled(ep) =>
               /\ TaxonomySettled(ep)'
               /\ calls' # calls =>
                    ~(Last(calls').kind = "genres" /\ Last(calls').ep = ep)
          /\ (Cached(cache, PopularKey(ep)) /\ ~Cached(cache', PopularKey(ep))) =>
               /\ co' = co /\ calls' = calls
               /\ Val(Val(cache[PopularKey(ep)]).ttl) <= TickLen
               /\ Val(cache'[PopularKey(ep)]).val = Val(cache[PopularKey(ep)]).val
          /\ Cached(cache, PopularKey(ep)) =>
               /\ Val(cache[PopularKey(ep)]).ttl # None
               /\ Val(Val(cache[PopularKey(ep)]).ttl) \in 1..CACHE_TTL_POPULAR
     /\ \A r \in Requests :
          /\ (co[r].fn = "get_popular" /\ co[r].pc = "get"
                /\ co'[r].pc \notin {"get", "raised"}) =>
               IF Cached(cache, PopularKey(co[r].ep))
               THEN /\ co'[r].pc = "returned"
                    /\ co'[r].val = Val(cache[PopularKey(co[r].ep)]).val
                    /\ calls' = calls
                    /\ cache' = cache
               ELSE co'[r].pc = "http"
          /\ (co[r].fn = "get_popular" /\ co[r].pc = "http" /\ co'[r].pc = "set") =>
               (Last(calls').kind = "popular" /\ co'[r].val = Last(calls').results)
          /\ (co[r].fn = "get_popular" /\ co[r].pc = "set" /\ co'[r].pc = "returned") =>
               cache'[PopularKey(co[r].ep)] =
                 Some([val |-> co[r].val, ttl |-> Some(CACHE_TTL_POPULAR)])
    ]_vars

\* one request alone has stored a popularity list; the list has run out of
\* time; the get_popular it then called has fetched another list upstream and
\* is about to write it over the expired one
C18_Witness ==
  /\ co["b"] = IdleCo
  /\ co["a"].fn = "get_popular"
  /\ co["a"].pc = "set"
  /\ cache[PopularKey("movie")] # None
  /\ Val(cache[PopularKey("movie")]).ttl = Some(0)
  /\ Val(cache[PopularKey("movie")]).val # co["a"].val
  /\ Len(CallsOfKind({"popular"})) = 2
  /\ \A k \in DOMAIN calls : calls[k].outcome = "200"

\* the value the cache holds under a key after a fetch with the given results
DumpOf(key, results) ==
  IF key \in {GenresKey("movie"), GenresKey("tv")} THEN JsonDumpsTax(results) ELSE results

\* the successful upstream fetches for a key
FetchesFor(key) ==
  {k \in DOMAIN calls :
     /\ calls[k].outcome = "200"
     /\ \E ep \in {"movie", "tv"} :
          /\ calls[k].ep = ep
          /\ \/ calls[k].kind = "genres" /\ key = GenresKey(ep)
             \/ calls[k].kind = "popular" /\ key = PopularKey(ep)}

\* C19: under any interleaving of concurrent requests every cache key is
\* either absent or holds the whole value one successful upstream fetch for
\* that key returned; a write replaces the value by the one its request
\* fetched, whatever the key held; and a request whose upstream taxonomy or
\* popularity fetch fails raises and leaves the cache as it was.
C19_WholeValueLastWriterWins ==
  [][/\ \A key \in CacheKeys :
          cache'[key] # None =>
            \E k \in FetchesFor(key)' : Val(cache'[key]).val = DumpOf(key, calls'[k].results)
     /\ \A r \in Requests :
          /\ (co[r].pc = "set" /\ co'[r].pc = "returned") =>
               /\ Val(cache'[CoKey(co[r].fn, co[r].ep)]).val =
                    DumpOf(CoKey(co[r].fn, co[r].ep), co[r].val)
               /\ \A key \in CacheKeys \ {CoKey(co[r].fn, co[r].ep)} :
                    cache'[key] = cache[key]
          /\ (co[r].pc = "http" /\ co'[r].pc # "http"
                /\ Last(calls').outcome # "200") =>
               (co'[r].pc = "raised" /\ cache' = cache)
    ]_vars

\* two requests missed the popularity list together and fetched different
\* lists; both have written, and the key holds the list of one of them, whole
C19_Witness ==
  /\ \A r \in Requests : co[r].fn = "get_popular" /\ co[r].pc = "returned"
  /\ co["a"].val # co["b"].val
  /\ co["a"].val # <<>> /\ co["b"].val # <<>>
  /\ Len(CallsOfKind({"popular"})) = 2
  /\ \A k \in DOMAIN calls : calls[k].outcome = "200"
  /\ cache[PopularKey("movie")] # None
  /\ Val(cache[PopularKey("movie")]).val \in {co["a"].val, co["b"].val}
  /\ Val(cache[PopularKey("movie")]).ttl = Some(CACHE_TTL_POPULAR)

\* C20: every record handed to matches was mapped with the query of its
\* request, and map_to_movie gives it the type of the query when the query has
\* one (else the type of its endpoint); so the type comparison of matches
\* excludes no record, and every record returned for a query with a type has
\* that type.
C20_TypeNeverExcludes ==
  /\ \A i \in DOMAIN tasks :
       tasks[i].rec # None =>
         /\ Val(tasks[i].rec).type =
              (IF params.type # None THEN Val(params.type)
               ELSE IF tasks[i].media_type = "tv" THEN "series" ELSE "movie")
         /\ ~TypeFails(Val(tasks[i].rec), params)
  /\ (pc = "done" /\ params.type # None) =>
       \A k \in DOMAIN result : result[k].type = Val(params.type)
  /\ (pc = "done" /\ strategy \in {"title_with_filters", "filters_only"}) =>
       \A k \in DOMAIN MappedNow :
         (~GenreFails(MappedNow[k], params) /\ ~ActorsFails(MappedNow[k], params)) =>
           \E j \in DOMAIN result : result[j] = MappedNow[k]

\* a series query with a genre has returned some of its mapped records, all of
\* type series, and has dropped another for its genre
C20_Witness ==
  /\ pc = "done"
  /\ strategy = "filters_only"
  /\ params.type = Some("series")
  /\ result # <<>>
  /\ Len(result) < Len(MappedNow)
  /\ \A k \in DOMAIN result : result[k].type = "series"
  /\ \A k \in DOMAIN MappedNow : MappedNow[k].type = "series"

\* the names of the taxonomy of the endpoint the query resolves to
TaxonomyNames == {TaxUp(SeriesEp)[k].name : k \in DOMAIN TaxUp(SeriesEp)}

\* the query has a genre that is no name of that taxonomy, whatever the case
GenreUnknown ==
  /\ IsSet(params.genre)
  /\ \A n \in TaxonomyNames : Lower(n) # Lower(Val(params.genre))

\* C21: in the title-with-filters and filters-only strategies, when the genre
\* of the query equals no name of the taxonomy of the resolved media type
\* (ignoring case), a discovery call carries no genre filter, the genres of
\* every mapped record are names of that taxonomy, and the list the request
\* returns is empty.
C21_UnknownGenreReturnsNothing ==
  (strategy \in {"title_with_filters", "filters_only"} /\ GenreUnknown) =>
    /\ \A k \in DOMAIN calls :
         calls[k].kind = "discover" => calls[k].with_genres = None
    /\ \A i \in DOMAIN tasks :
         tasks[i].rec # None =>
           \A j \in DOMAIN Val(tasks[i].rec).genres :
             Val(tasks[i].rec).genres[j] \in TaxonomyNames
    /\ pc = "done" => result = <<>>

\* a filters-only query with an unknown genre has returned: its discovery call
\* was answered with two items, both were mapped, one of them to a record with
\* a genre, and none is in the returned list
C21_Witness ==
  /\ pc = "done"
  /\ strategy = "filters_only"
  /\ GenreUnknown
  /\ \E k \in DOMAIN calls :
       calls[k].kind = "discover" /\ Len(calls[k].results) = 2
  /\ Len(MappedNow) = 2
  /\ \E k \in DOMAIN MappedNow : MappedNow[k].genres # <<>>
  /\ result = <<>>

\* what a logged request asked for: all of the call but how it ended
RequestOf(c) ==
  [kind |-> c.kind, ep |-> c.ep, with_genres |-> c.with_genres,
   with_cast |-> c.with_cast, item_id |-> c.item_id]

\* C22: for a query with title, actors and type = series the candidates never
\* come from a title search, and the same query under another non-empty
\* title, answered by the upstreams in the same way, issues the same upstream
\* calls and ends the same way with the same records.
C22_TitleIsNotRead ==
  /\ pc \notin {"search", "disc_call", "popular"}
  /\ \A k \in DOMAIN calls : calls[k].kind \notin {"search", "discover", "popular"}
  /\ twin.ran =>
       /\ Truthy(params.title) /\ Truthy(twin.title0) /\ params.title # twin.title0
       /\ Truthy(params.actors) /\ IsSeries
       /\ \A k \in DOMAIN calls :
            /\ k <= Len(twin.calls0)
            /\ RequestOf(calls[k]) = RequestOf(twin.calls0[k])
       /\ pc \in {"done", "error"} =>
            /\ pc = twin.pc0
            /\ calls = twin.calls0
            /\ result = twin.result0

\* the query under the title 'a' returned one of its two mapped records; the
\* same query under the title 'B' has issued the same person, credits and
\* taxonomy calls and has returned that record too
C22_Witness ==
  /\ twin.ran
  /\ twin.title0 = Some(S_a)
  /\ params.title = Some(S_B)
  /\ pc = "done"
  /\ Len(calls) = 3
  /\ Len(MappedNow) = 2
  /\ Len(result) = 1
  /\ result = twin.result0

=============================================================================
